---- MODULE Spec2Model ----
(***************************************************************************)
(* Model of the real-time log-tail viewer controller                       *)
(* (src/unnamed/part_000): WebSocket lifecycle, reconnect backoff, HTTP    *)
(* polling fallback, pause/resume and the rendered table.                  *)
(*                                                                         *)
(* Text is modelled as a sequence of one-character strings so that         *)
(* case folding and substring search are computed, not assumed.            *)
(***************************************************************************)
EXTENDS Integers, Sequences, FiniteSets, Bags, TLC

\* ------------------------------------------------------------------ bounds
\* WebSocket objects whose close event has not fired yet, at the same time.
MaxSockets == 2
\* Reconnect timeouts (setTimeout of _scheduleReconnect) pending at once.
MaxTimers == 1
\* fetch() requests in flight at once.
MaxInflight == 1
\* Rows the table body may hold.
MaxRows == 2

\* ------------------------------------------------------- program constants
MAX_RECONNECT == 6
INITIAL_TAIL_LINES == 200
\* let currentIntervalMs = 5000
DefaultIntervalMs == 5000
\* parseInt(this.value,10)||1000 in the pollInterval change handler
ChangeFallbackMs == 1000
\* Math.min(30000, 500 * Math.pow(2, reconnectAttempts))
BackoffCapMs == 30000
BackoffBaseMs == 500

VARIABLES
  phase,                 \* "script" | "dom" (DOMContentLoaded ran) | "loaded" (window load ran)
  websocket,             \* the tracked WebSocket object, or Null
  detached,              \* bag of the sockets the controller created, no longer
                         \* tracks and whose close event has not fired yet
  isPaused,
  pauseBtnDisabled, resumeBtnDisabled,
  connectBtnDisabled, disconnectBtnDisabled,
  reconnectAttempts,
  reconnectTimers,       \* number of pending reconnect timeouts (setTimeout)
  lastDelay,             \* history: the delay given to the last setTimeout since
                         \* the last open, 0 if there was none
  pollTimer,             \* 0 = null, else the interval (ms) the running setInterval was started with
  intervals,             \* number of setInterval timers started and not cleared
  currentIntervalMs,
  autoPoll, autoReconnect,  \* the two checkboxes
  tbody,                 \* rows of the table body, top row first
  totalLogs,             \* number shown in #totalLogs
  lastUpdate,            \* TRUE iff #lastUpdate shows a time
  inflight,              \* fetch() requests sent and not yet answered, oldest first
  currentKeyword,
  selectedLevels,
  selectedFile,          \* value of #logFileSelect
  sortColumn,            \* "" = null, else "ts" | "level" | "msg"
  sortDirection,         \* 1 ascending, -1 descending
  headerSearch,
  startTs, endTs,        \* values of the two datetime inputs, "" = empty
  kwPending, hsPending,  \* values of the not yet fired, not cleared timeouts
                         \* of doSearch and doHeaderSearch, oldest first
  currentLines,
  modal,                 \* the overlay that is open: "" | "general" | "level"
  levelChecked,          \* values of the checked boxes of the level dialog
  atOpen                 \* history: Snapshot of the state when a dialog was
                         \* opened last

vars == << phase, websocket, detached, isPaused, pauseBtnDisabled, resumeBtnDisabled,
           connectBtnDisabled, disconnectBtnDisabled, reconnectAttempts,
           reconnectTimers, lastDelay, pollTimer, currentIntervalMs, autoPoll,
           autoReconnect, tbody, totalLogs, lastUpdate, inflight, currentKeyword,
           selectedLevels, intervals, selectedFile, sortColumn, sortDirection,
           headerSearch, startTs, endTs, kwPending, hsPending, currentLines,
           modal, levelChecked, atOpen >>

\* ------------------------------------------------------------------- text
LowerChars == << "a","b","c","d","e","f","g","h","i","j","k","l","m",
                 "n","o","p","q","r","s","t","u","v","w","x","y","z" >>
UpperChars == << "A","B","C","D","E","F","G","H","I","J","K","L","M",
                 "N","O","P","Q","R","S","T","U","V","W","X","Y","Z" >>

toUpperChar(c) ==
  IF \E i \in 1..26 : LowerChars[i] = c
    THEN UpperChars[CHOOSE i \in 1..26 : LowerChars[i] = c]
    ELSE c

toLowerChar(c) ==
  IF \E i \in 1..26 : UpperChars[i] = c
    THEN LowerChars[CHOOSE i \in 1..26 : UpperChars[i] = c]
    ELSE c

toUpperCase(s) == [i \in 1..Len(s) |-> toUpperChar(s[i])]
toLowerCase(s) == [i \in 1..Len(s) |-> toLowerChar(s[i])]

\* h.indexOf(n) !== -1
Contains(h, n) ==
  \E i \in 0..(Len(h) - Len(n)) : SubSeq(h, i + 1, i + Len(n)) = n

\* a || b on strings: the empty string is falsy
OrElse(a, b) == IF a # << >> THEN a ELSE b

Min(a, b) == IF a <= b THEN a ELSE b

\* String.prototype.trim for the one white-space character of the model.
RECURSIVE trimStart(_)
trimStart(s) == IF s # << >> /\ Head(s) = " " THEN trimStart(Tail(s)) ELSE s
RECURSIVE trimEnd(_)
trimEnd(s) ==
  IF s # << >> /\ s[Len(s)] = " " THEN trimEnd(SubSeq(s, 1, Len(s) - 1)) ELSE s
trim(s) == trimEnd(trimStart(s))

\* escapeHtml: & < > become entities, in that order of replacement.
RECURSIVE escapeHtml(_)
escapeHtml(s) ==
  IF s = << >> THEN << >>
  ELSE (IF Head(s) = "&" THEN << "&","a","m","p",";" >>
        ELSE IF Head(s) = "<" THEN << "&","l","t",";" >>
        ELSE IF Head(s) = ">" THEN << "&","g","t",";" >>
        ELSE << Head(s) >>) \o escapeHtml(Tail(s))

\* The regular expression literal of highlightText as the source spells it,
\* /[.*+?^${}()|[\\]\\]/g: the class ends at the first ] (the two
\* backslashes before it are one escaped backslash, a member of the class),
\* and what follows the class is an escaped backslash and a literal ].  The
\* expression matches three characters: one of the class, a backslash, a ].
EscapeClass == {".", "*", "+", "?", "^", "$", "{", "}", "(", ")", "|", "[", "\\"}

\* (kw+'').replace(/[.*+?^${}()|[\\]\\]/g, '\\$&'): a backslash goes in
\* front of every match of the expression.
RECURSIVE escapeKeyword(_)
escapeKeyword(kw) ==
  IF kw = << >> THEN << >>
  ELSE IF Len(kw) >= 3 /\ kw[1] \in EscapeClass /\ kw[2] = "\\" /\ kw[3] = "]"
    THEN << "\\" >> \o SubSeq(kw, 1, 3) \o escapeKeyword(SubSeq(kw, 4, Len(kw)))
  ELSE << Head(kw) >> \o escapeKeyword(Tail(kw))

\* new RegExp(pattern, 'gi') for the patterns of the model: ordinary
\* characters, the dot, a backslash with the character it escapes, and
\* parentheses (the keywords of the model hold no other pattern character).
\* The result is the sequence of atoms to match one after the other, or
\* SyntaxError for a backslash at the end and for parentheses that do not
\* pair up.
SyntaxError == "SyntaxError"
AnyChar == [any |-> TRUE, char |-> ""]
Literal(c) == [any |-> FALSE, char |-> c]

RECURSIVE RegExpAtoms(_, _)
RegExpAtoms(pattern, depth) ==
  IF pattern = << >> THEN (IF depth = 0 THEN << >> ELSE SyntaxError)
  ELSE LET c == Head(pattern)
           Then(atoms, rest, d) ==
             LET more == RegExpAtoms(rest, d)
             IN IF more = SyntaxError THEN SyntaxError ELSE atoms \o more
       IN IF c = "\\"
            THEN IF Len(pattern) = 1 THEN SyntaxError
                 ELSE Then(<< Literal(pattern[2]) >>,
                           SubSeq(pattern, 3, Len(pattern)), depth)
          ELSE IF c = "(" THEN Then(<< >>, Tail(pattern), depth + 1)
          ELSE IF c = ")"
            THEN IF depth = 0 THEN SyntaxError
                 ELSE Then(<< >>, Tail(pattern), depth - 1)
          ELSE IF c = "." THEN Then(<< AnyChar >>, Tail(pattern), depth)
          ELSE Then(<< Literal(c) >>, Tail(pattern), depth)

RegExp(pattern) == RegExpAtoms(pattern, 0)

\* The markers '<mark class="log-highlight">' and '</mark>'.
MarkOpen == "<mark>"
MarkClose == "</mark>"

\* atoms match the first characters of t, letter case ignored (flag i).
MatchesAt(atoms, t) ==
  /\ Len(t) >= Len(atoms)
  /\ \A n \in 1..Len(atoms) :
       atoms[n].any \/ toLowerChar(atoms[n].char) = toLowerChar(t[n])

\* text.replace(re, '<mark ...>$1</mark>') with flag g: matches are taken
\* from left to right and do not overlap; an expression that matches the
\* empty text matches once before every character and once at the end.
RECURSIVE replaceAll(_, _)
replaceAll(t, atoms) ==
  IF atoms = << >>
    THEN << MarkOpen, MarkClose >>
           \o (IF t = << >> THEN << >>
               ELSE << Head(t) >> \o replaceAll(Tail(t), atoms))
  ELSE IF t = << >> THEN << >>
  ELSE IF MatchesAt(atoms, t)
    THEN << MarkOpen >> \o SubSeq(t, 1, Len(atoms)) \o << MarkClose >>
           \o replaceAll(SubSeq(t, Len(atoms) + 1, Len(t)), atoms)
  ELSE << Head(t) >> \o replaceAll(Tail(t), atoms)

\* highlightText(text, kw): the HTML of a message cell.
highlightText(text, kw) ==
  IF kw = << >> THEN escapeHtml(text)
  ELSE LET re == RegExp(<< "(" >> \o escapeKeyword(kw) \o << ")" >>)
       IN IF re = SyntaxError THEN escapeHtml(text)
          ELSE replaceAll(escapeHtml(text), re)

\* The characters of the model in the order of their UTF-16 code units.
Alphabet == << " " >> \o << "0","1","2","3","4","5","6","7","8","9" >>
            \o UpperChars \o LowerChars
CharCode(c) == CHOOSE i \in 1..Len(Alphabet) : Alphabet[i] = c

\* a < b on strings
RECURSIVE LessText(_, _)
LessText(a, b) ==
  IF b = << >> THEN FALSE
  ELSE IF a = << >> THEN TRUE
  ELSE IF Head(a) # Head(b) THEN CharCode(Head(a)) < CharCode(Head(b))
  ELSE LessText(Tail(a), Tail(b))

\* The number NaN; the timestamps of the model are not negative.
NaN == -1

\* new Date(text).getTime().  Date texts are abstracted: a text of decimal
\* digits stands for a date text the engine parses, read at the instant that
\* number names; any other text is one the engine does not parse.
RECURSIVE DateGetTime(_)
DateGetTime(s) ==
  IF s = << >> THEN NaN
  ELSE LET d == CharCode(s[Len(s)]) - 2
           rest == SubSeq(s, 1, Len(s) - 1)
       IN IF d \notin 0..9 THEN NaN
          ELSE IF rest = << >> THEN d
          ELSE IF DateGetTime(rest) = NaN THEN NaN
          ELSE 10 * DateGetTime(rest) + d

\* if(!tsStr) return NaN; ... new Date(tsStr.replace('T',' ')) ...
parseTsMs(tsStr) == IF tsStr = << >> THEN NaN ELSE DateGetTime(tsStr)

\* ----------------------------------------------------------- input domains
ERROR == << "E","R","R","O","R" >>
INFO == << "I","N","F","O" >>

\* new Date().toLocaleString('ko-KR'): some non-empty text chosen by the clock
NowText == << "n","o","w" >>

\* Log records as the server sends them: {ts, level, msg|message}; an absent
\* field is the empty text (both are falsy in the code).
Entry1 == [ts |-> << "1" >>, level |-> << "e","r","r","o","r" >>,
           msg |-> << "d","i","s","k" >>, message |-> << >>]
Entry2 == [ts |-> << >>, level |-> INFO, msg |-> << >>, message |-> << "o","k" >>]
Entries == {Entry1, Entry2}

\* WebSocket frames: text that JSON.parse rejects, JSON of another shape, and
\* line events.
Frames ==
  {[json |-> FALSE, type |-> "", entry |-> Entry1],
   [json |-> TRUE, type |-> "ping", entry |-> Entry1]}
  \cup {[json |-> TRUE, type |-> "line", entry |-> e] : e \in Entries}

\* Bodies of a successful HTTP answer that are arrays.
Snapshots == {<< >>, << Entry1 >>, << Entry2, Entry1 >>}

\* Outcomes of one fetch(): failure (network error, non-2xx status, body that
\* is not JSON), JSON that is not an array, or an array.
Responses ==
  {[ok |-> FALSE, isArray |-> FALSE, data |-> << >>],
   [ok |-> TRUE, isArray |-> FALSE, data |-> << >>]}
  \cup {[ok |-> TRUE, isArray |-> TRUE, data |-> d] : d \in Snapshots}

\* Values localStorage may hold when the page starts.
StoredKeywords == {<< >>, << "D","i" >>}
StoredLevelSets == {{}, {ERROR}}
\* Records for the sort: every level of the priority table in some case, a
\* level the table does not have, a missing level, equal, missing and
\* unparsable timestamps, messages that differ in case only.
SortEntries ==
  {[ts |-> << "2" >>, level |-> << "W","a","r","n","i","n","g" >>,
    msg |-> << "d","i","s","k" >>, message |-> << >>],
   Entry1,
   Entry2,
   [ts |-> << "2" >>, level |-> << "d","e","b","u","g" >>,
    msg |-> << "O","k" >>, message |-> << >>],
   [ts |-> << "1" >>, level |-> << "t","r","a","c","e" >>,
    msg |-> << >>, message |-> << >>],
   [ts |-> << "x" >>, level |-> << >>, msg |-> << "a" >>, message |-> << >>]}

RECURSIVE SeqsUpTo(_, _)
SeqsUpTo(S, n) ==
  IF n = 0 THEN {<< >>}
  ELSE LET shorter == SeqsUpTo(S, n - 1)
       IN shorter \cup {Append(q, e) : q \in shorter, e \in S}

\* Array bodies of a successful HTTP answer made of these records.
SortSnapshots == SeqsUpTo(SortEntries, MaxRows)

\* Texts the user may type in #keywordFilter and #msgSearch, and in
\* #startTs and #endTs (a number stands for a date, x for text that is none).
KeywordInputs == {<< "O","K"," " >>, << "1" >>}
HeaderInputs == {<< >>, << " ","d","I" >>}
TsRanges ==
  {<< << >>, << >> >>, << << "1" >>, << "1" >> >>, << << "2" >>, << >> >>,
   << << >>, << "0" >> >>, << << "x" >>, << "x" >> >>}
SortColumns == {"", "ts", "level", "msg"}
\* Values the user may enter in #pollInterval, already through
\* parseInt(v, 10): 0 stands for NaN and for 0, both falsy.
EnteredIntervals == {0, DefaultIntervalMs}
\* Options of #logFileSelect.
Files == {"app.log", "mcu.log"}

\* The value null of the variable websocket.
Null == [readyState |-> "none", manual |-> FALSE, userClosed |-> FALSE]

\* A socket as new WebSocket(url) returns it.  Two history fields: manual
\* holds when connectWebSocket(true) created the socket with the retry
\* budget used up; userClosed holds once disconnectWebSocket has closed it.
NewSocket(manualAtMax) ==
  [readyState |-> "connecting", manual |-> manualAtMax, userClosed |-> FALSE]

\* ---------------------------------------------------------- program state
\* The controller's state as one record, so that the helper functions of the
\* source can be composed in the order the handlers call them.  inBounds
\* turns FALSE when a step would exceed a bound of the model; no action
\* commits such a state.
Cur ==
  [websocket |-> websocket, detached |-> detached, isPaused |-> isPaused,
   pauseBtnDisabled |-> pauseBtnDisabled, resumeBtnDisabled |-> resumeBtnDisabled,
   connectBtnDisabled |-> connectBtnDisabled,
   disconnectBtnDisabled |-> disconnectBtnDisabled,
   reconnectAttempts |-> reconnectAttempts, reconnectTimers |-> reconnectTimers,
   lastDelay |-> lastDelay, pollTimer |-> pollTimer,
   currentIntervalMs |-> currentIntervalMs, autoPoll |-> autoPoll,
   autoReconnect |-> autoReconnect, tbody |-> tbody, totalLogs |-> totalLogs,
   lastUpdate |-> lastUpdate, inflight |-> inflight,
   currentKeyword |-> currentKeyword, selectedLevels |-> selectedLevels,
   intervals |-> intervals, selectedFile |-> selectedFile,
   sortColumn |-> sortColumn, sortDirection |-> sortDirection,
   headerSearch |-> headerSearch, startTs |-> startTs, endTs |-> endTs,
   kwPending |-> kwPending, hsPending |-> hsPending,
   currentLines |-> currentLines, modal |-> modal, levelChecked |-> levelChecked,
   atOpen |-> atOpen,
   inBounds |-> TRUE]

Commit(st) ==
  /\ st.inBounds
  /\ websocket' = st.websocket
  /\ detached' = st.detached
  /\ isPaused' = st.isPaused
  /\ pauseBtnDisabled' = st.pauseBtnDisabled
  /\ resumeBtnDisabled' = st.resumeBtnDisabled
  /\ connectBtnDisabled' = st.connectBtnDisabled
  /\ disconnectBtnDisabled' = st.disconnectBtnDisabled
  /\ reconnectAttempts' = st.reconnectAttempts
  /\ reconnectTimers' = st.reconnectTimers
  /\ lastDelay' = st.lastDelay
  /\ pollTimer' = st.pollTimer
  /\ currentIntervalMs' = st.currentIntervalMs
  /\ autoPoll' = st.autoPoll
  /\ autoReconnect' = st.autoReconnect
  /\ tbody' = st.tbody
  /\ totalLogs' = st.totalLogs
  /\ lastUpdate' = st.lastUpdate
  /\ inflight' = st.inflight
  /\ currentKeyword' = st.currentKeyword
  /\ selectedLevels' = st.selectedLevels
  /\ intervals' = st.intervals
  /\ selectedFile' = st.selectedFile
  /\ sortColumn' = st.sortColumn
  /\ sortDirection' = st.sortDirection
  /\ headerSearch' = st.headerSearch
  /\ startTs' = st.startTs
  /\ endTs' = st.endTs
  /\ kwPending' = st.kwPending
  /\ hsPending' = st.hsPending
  /\ currentLines' = st.currentLines
  /\ modal' = st.modal
  /\ levelChecked' = st.levelChecked
  /\ atOpen' = st.atOpen

\* Number of sockets of st whose close event has not fired.
LiveCount(st) ==
  (IF st.websocket # Null THEN 1 ELSE 0) + BagCardinality(st.detached)

\* ------------------------------------------------------ helper functions
\* Mutant of clearLogTable: the total counter is not reset.
clearLogTableKeepingTotal(st) ==
  [st EXCEPT !.tbody = << >>, !.lastUpdate = FALSE,
             !.pauseBtnDisabled = FALSE, !.resumeBtnDisabled = TRUE]

clearLogTable(st) ==
  [st EXCEPT !.tbody = << >>, !.totalLogs = 0, !.lastUpdate = FALSE,
             !.pauseBtnDisabled = FALSE, !.resumeBtnDisabled = TRUE]

\* Mutant of pri: WARNING and INFO exchanged.
priInfoAboveWarning(level) ==
  IF level = ERROR THEN 4
  ELSE IF level = << "W","A","R","N","I","N","G" >> THEN 2
  ELSE IF level = INFO THEN 3
  ELSE IF level = << "D","E","B","U","G" >> THEN 1
  ELSE 0

\* const pri = {'ERROR':4,'WARNING':3,'INFO':2,'DEBUG':1}; pri[...] || 0
pri(level) ==
  IF level = ERROR THEN 4
  ELSE IF level = << "W","A","R","N","I","N","G" >> THEN 3
  ELSE IF level = INFO THEN 2
  ELSE IF level = << "D","E","B","U","G" >> THEN 1
  ELSE 0

\* The comparator of rows.sort in sortTable, with sortDirection = dir.  A
\* result of NaN (an unparsable timestamp) counts as 0 in Array.prototype.sort.
compareRows(col, a, b, dir) ==
  IF col = "ts"
    THEN LET ta == parseTsMs(a.rawTs)
             tb == parseTsMs(b.rawTs)
         IN IF ta = NaN \/ tb = NaN THEN 0 ELSE (ta - tb) * dir
  ELSE IF col = "level"
    THEN (pri(toUpperCase(a.rawLevel)) - pri(toUpperCase(b.rawLevel))) * dir
  ELSE LET ma == toLowerCase(a.rawMsg)
           mb == toLowerCase(b.rawMsg)
       IN IF LessText(ma, mb) THEN (0 - 1) * dir
          ELSE IF LessText(mb, ma) THEN dir
          ELSE 0

\* Mutant of insertRow: a row goes in front of the rows it compares equal to.
RECURSIVE insertRowBeforeEqual(_, _, _, _)
insertRowBeforeEqual(sorted, row, col, dir) ==
  IF sorted = << >> THEN << row >>
  ELSE IF compareRows(col, Head(sorted), row, dir) >= 0 THEN << row >> \o sorted
  ELSE << Head(sorted) >> \o insertRowBeforeEqual(Tail(sorted), row, col, dir)

\* Array.prototype.sort is stable: a row goes behind the rows that do not
\* compare greater than it.
RECURSIVE insertRow(_, _, _, _)
insertRow(sorted, row, col, dir) ==
  IF sorted = << >> THEN << row >>
  ELSE IF compareRows(col, Head(sorted), row, dir) > 0 THEN << row >> \o sorted
  ELSE << Head(sorted) >> \o insertRow(Tail(sorted), row, col, dir)

RECURSIVE sortRows(_, _, _, _)
sortRows(sorted, rows, col, dir) ==
  IF rows = << >> THEN sorted
  ELSE sortRows(insertRow(sorted, Head(rows), col, dir), Tail(rows), col, dir)

\* Mutant of sortTable: only the rows on display are put back.
sortTableShownOnly(st, col, forceDir) ==
  IF col = "" THEN st
  ELSE LET Shown(row) == ~row.hidden
           s1 == IF forceDir # 0
                   THEN [st EXCEPT !.sortDirection = forceDir, !.sortColumn = col]
                   ELSE IF st.sortColumn = col
                     THEN [st EXCEPT !.sortDirection = 0 - @]
                     ELSE [st EXCEPT !.sortColumn = col,
                                     !.sortDirection = IF col = "ts" THEN 0 - 1 ELSE 1]
       IN [s1 EXCEPT !.tbody = sortRows(<< >>, SelectSeq(@, Shown), col,
                                        s1.sortDirection)]

\* sortTable(col, forceDir); forceDir = 0 stands for an argument not given.
sortTable(st, col, forceDir) ==
  IF col = "" THEN st
  ELSE LET s1 == IF forceDir # 0
                   THEN [st EXCEPT !.sortDirection = forceDir, !.sortColumn = col]
                   ELSE IF st.sortColumn = col
                     THEN [st EXCEPT !.sortDirection = 0 - @]
                     ELSE [st EXCEPT !.sortColumn = col,
                                     !.sortDirection = IF col = "ts" THEN 0 - 1 ELSE 1]
       IN [s1 EXCEPT !.tbody = sortRows(<< >>, @, col, s1.sortDirection)]

\* The display of one row as applyFilter sets it.  startVal and endVal: an
\* empty input gives null, which the test treats like NaN (no bound).
rowHidden(st, row) ==
  LET kw == toLowerCase(st.currentKeyword)
      hs == toLowerCase(st.headerSearch)
      startVal == IF st.startTs # << >> THEN DateGetTime(st.startTs) ELSE NaN
      endVal == IF st.endTs # << >> THEN DateGetTime(st.endTs) ELSE NaN
      raw == row.rawMsg
      level == toUpperCase(row.rawLevel)
      tsMs == parseTsMs(row.rawTs)
      combined == row.rawTs \o << " " >> \o level \o << " " >> \o raw
      kwMatched == kw = << >> \/ Contains(toLowerCase(combined), kw)
      levelMatched == st.selectedLevels = {} \/ level \in st.selectedLevels
      tsMatched == /\ startVal = NaN \/ (tsMs # NaN /\ tsMs >= startVal)
                   /\ endVal = NaN \/ (tsMs # NaN /\ tsMs <= endVal)
      headerMatched == hs = << >> \/ Contains(toLowerCase(raw), hs)
  IN ~(kwMatched /\ levelMatched /\ tsMatched /\ headerMatched)

\* Mutant of applyFilter: the header search is not consulted.
applyFilterWithoutHeader(st) ==
  LET s0 == [st EXCEPT !.headerSearch = << >>]
      s1 == [st EXCEPT !.tbody = [k \in 1..Len(@) |->
                                   [@[k] EXCEPT !.hidden = rowHidden(s0, st.tbody[k])]]]
  IN IF s1.sortColumn # "" THEN sortTable(s1, s1.sortColumn, 0) ELSE s1

applyFilter(st) ==
  LET s1 == [st EXCEPT !.tbody = [k \in 1..Len(@) |->
                                   [@[k] EXCEPT !.hidden = rowHidden(st, st.tbody[k])]]]
  IN IF s1.sortColumn # "" THEN sortTable(s1, s1.sortColumn, 0) ELSE s1

\* Mutant of debounce: the pending timeout is not cleared.
debounceWithoutClear(pending, v) == Append(pending, v)

\* The function debounce returns: clearTimeout(t) cancels the timeout set by
\* the previous call if it has not fired, then a new one is set.
debounce(pending, v) ==
  Append(IF pending = << >> THEN pending ELSE SubSeq(pending, 1, Len(pending) - 1), v)

\* clearInterval(pollTimer) clears the one timer the handle names.
_stopPoll(st) ==
  IF st.pollTimer # 0 THEN [st EXCEPT !.pollTimer = 0, !.intervals = @ - 1] ELSE st

\* pollTimer = setInterval(_sendReloadRequest, currentIntervalMs)
setPollInterval(st) ==
  [st EXCEPT !.pollTimer = st.currentIntervalMs, !.intervals = @ + 1]

\* Mutant of _restartPollIfNeeded: the running timer is not cancelled first.
_restartPollKeepingOld(st) ==
  IF st.websocket = Null /\ st.autoPoll THEN setPollInterval(st) ELSE st

_restartPollIfNeeded(st) ==
  LET s1 == _stopPoll(st)
  IN IF s1.websocket = Null /\ s1.autoPoll THEN setPollInterval(s1) ELSE s1

\* Mutant of connectWebSocket: a user-initiated connect resets the counter.
connectWebSocketResetting(st, userInitiated) ==
  IF st.websocket # Null THEN st
  ELSE LET s1 == clearLogTable(st)
       IN [s1 EXCEPT !.websocket =
                       NewSocket(userInitiated /\ st.reconnectAttempts >= MAX_RECONNECT),
                     !.reconnectAttempts = IF userInitiated THEN 0 ELSE @,
                     !.inBounds = @ /\ LiveCount(st) < MaxSockets]

\* The URL is built from location.host and URLSearchParams, so it is well
\* formed and the WebSocket constructor does not throw.
connectWebSocket(st, userInitiated) ==
  IF st.websocket # Null THEN st
  ELSE LET s1 == clearLogTable(st)
       IN [s1 EXCEPT !.websocket =
                       NewSocket(userInitiated /\ st.reconnectAttempts >= MAX_RECONNECT),
                     !.inBounds = @ /\ LiveCount(st) < MaxSockets]

\* Mutants of ReconnectDelay: the exponent taken before the increment, and
\* a delay that grows linearly.
ReconnectDelayFromBase(n) == Min(BackoffCapMs, BackoffBaseMs * 2^(n - 1))
ReconnectDelayLinear(n) == Min(BackoffCapMs, BackoffBaseMs * 2 * n)

ReconnectDelay(n) == Min(BackoffCapMs, BackoffBaseMs * 2^n)

\* Mutant of _scheduleReconnect: no limit on the attempts.
_scheduleReconnectUnlimited(st) ==
  LET n == st.reconnectAttempts + 1
      delay == ReconnectDelay(n)
  IN [st EXCEPT !.reconnectAttempts = n,
                !.reconnectTimers = @ + 1,
                !.lastDelay = delay,
                !.inBounds = @ /\ st.reconnectTimers < MaxTimers]

_scheduleReconnect(st) ==
  IF st.reconnectAttempts >= MAX_RECONNECT THEN st
  ELSE LET n == st.reconnectAttempts + 1
           delay == ReconnectDelay(n)
       IN [st EXCEPT !.reconnectAttempts = n,
                     !.reconnectTimers = @ + 1,
                     !.lastDelay = delay,
                     !.inBounds = @ /\ st.reconnectTimers < MaxTimers]

\* websocket.close() moves the socket to CLOSING; its close event comes later.
closeTracked(st, byUser) ==
  [st EXCEPT !.detached = @ (+) SetToBag({[st.websocket EXCEPT
                                             !.readyState = "closing",
                                             !.userClosed = byUser]}),
             !.websocket = Null]

disconnectWebSocket(st) ==
  IF st.websocket # Null THEN closeTracked(st, TRUE) ELSE st

\* Mutant of addLogEntry: the new row is hidden as applyFilter would hide
\* it, time range and header search included.
addLogEntryWithAllFilters(st, logData) ==
  LET level == toUpperCase(logData.level)
      ts == OrElse(logData.ts, NowText)
      msgRaw == OrElse(logData.msg, OrElse(logData.message, << >>))
      row == [rawMsg |-> msgRaw, rawTs |-> ts, rawLevel |-> level, hidden |-> FALSE]
  IN [st EXCEPT !.tbody = << [row EXCEPT !.hidden = rowHidden(st, row)] >> \o @,
                !.lastUpdate = TRUE,
                !.totalLogs = @ + 1,
                !.inBounds = @ /\ Len(st.tbody) < MaxRows]

addLogEntry(st, logData) ==
  LET level == toUpperCase(logData.level)
      ts == OrElse(logData.ts, NowText)
      msgRaw == OrElse(logData.msg, OrElse(logData.message, << >>))
      kw == toLowerCase(st.currentKeyword)
      combined == toLowerCase(ts \o << " " >> \o level \o << " " >> \o msgRaw)
      kwMatched == kw = << >> \/ Contains(combined, kw)
      levelMatched == st.selectedLevels = {} \/ toUpperCase(level) \in st.selectedLevels
      row == [rawMsg |-> msgRaw, rawTs |-> ts, rawLevel |-> level,
              hidden |-> ~(kwMatched /\ levelMatched)]
  IN [st EXCEPT !.tbody = << row >> \o @,
                !.lastUpdate = TRUE,
                !.totalLogs = @ + 1,
                !.inBounds = @ /\ Len(st.tbody) < MaxRows]

RECURSIVE addEach(_, _)
\* data.forEach(function(entry){ addLogEntry(entry); })
addEach(st, data) ==
  IF data = << >> THEN st ELSE addEach(addLogEntry(st, Head(data)), Tail(data))

\* getSelectedFile() reads #logFileSelect when the payload is built.
\* start and end are sent only when the input holds text, as the number
\* new Date(value).getTime() gives: a sequence of no or one number here.
_buildFilterPayload(st) ==
  [lines |-> st.currentLines,
   keyword |-> st.currentKeyword, levels |-> st.selectedLevels,
   start |-> IF st.startTs # << >> THEN << DateGetTime(st.startTs) >> ELSE << >>,
   end |-> IF st.endTs # << >> THEN << DateGetTime(st.endTs) >> ELSE << >>,
   file |-> st.selectedFile]

\* websocket.send() throws while the socket is CONNECTING (the catch falls
\* through to fetch); on an OPEN socket the command goes to the server.
_sendReloadRequest(st) ==
  LET payload == _buildFilterPayload(st)
  IN IF st.websocket # Null /\ st.websocket.readyState # "connecting"
       THEN st
       ELSE [st EXCEPT !.inflight = Append(@, payload),
                       !.inBounds = @ /\ Len(st.inflight) < MaxInflight]

\* ------------------------------------------------------------------ Init
\* The state when the script has been evaluated and no event has run.  The
\* markup is not part of the source; it is taken to show what the handlers
\* themselves establish for a page that is disconnected and not paused
\* (onclose: connect enabled, disconnect disabled; clearLogTable: pause
\* enabled, resume disabled, no rows, total 0).
Init ==
  /\ phase = "script"
  /\ websocket = Null
  /\ detached = EmptyBag
  /\ isPaused = FALSE
  /\ pauseBtnDisabled = FALSE
  /\ resumeBtnDisabled = TRUE
  /\ connectBtnDisabled = FALSE
  /\ disconnectBtnDisabled = TRUE
  /\ reconnectAttempts = 0
  /\ reconnectTimers = 0
  /\ lastDelay = 0
  /\ pollTimer = 0
  /\ currentIntervalMs = DefaultIntervalMs
  /\ autoPoll = FALSE
  /\ autoReconnect = FALSE
  /\ tbody = << >>
  /\ totalLogs = 0
  /\ lastUpdate = FALSE
  /\ inflight = << >>
  /\ currentKeyword = << >>
  /\ selectedLevels = {}
  /\ intervals = 0
  /\ selectedFile = "app.log"
  /\ sortColumn = ""
  /\ sortDirection = -1
  /\ headerSearch = << >>
  /\ startTs = << >>
  /\ endTs = << >>
  /\ kwPending = << >>
  /\ hsPending = << >>
  /\ currentLines = INITIAL_TAIL_LINES
  /\ modal = ""
  /\ levelChecked = {}
  /\ atOpen = [currentKeyword |-> << >>, selectedLevels |-> {},
               currentLines |-> INITIAL_TAIL_LINES,
               currentIntervalMs |-> DefaultIntervalMs,
               pollTimer |-> 0, intervals |-> 0, inflight |-> << >>]

\* ------------------------------------------------------------- page events
\* The DOMContentLoaded handler of init(): restore from localStorage, start
\* polling, connect when a token is stored.  No poll interval is stored, so
\* currentIntervalMs keeps its default.
DOMContentLoaded(storedAutoPoll, storedKeyword, storedLevels, hasToken) ==
  /\ phase = "script"
  /\ phase' = "dom"
  /\ LET s1 == [Cur EXCEPT !.currentKeyword = storedKeyword,
                           !.autoPoll = storedAutoPoll,
                           !.selectedLevels = {toUpperCase(l) : l \in storedLevels}]
         s2 == IF s1.websocket = Null /\ s1.autoPoll THEN setPollInterval(s1) ELSE s1
         s3 == IF hasToken
                 THEN connectWebSocket([s2 EXCEPT !.autoReconnect = TRUE], FALSE)
                 ELSE s2
     IN Commit(s3)

\* window load: clearLogTable(); _sendReloadRequest(); connectWebSocket();
windowLoad ==
  /\ phase = "dom"
  /\ phase' = "loaded"
  /\ Commit(connectWebSocket(_sendReloadRequest(clearLogTable(Cur)), FALSE))

\* ------------------------------------------------------------- user events
connectBtnClick ==
  /\ phase # "script"
  /\ ~connectBtnDisabled
  /\ Commit(connectWebSocket(Cur, TRUE))
  /\ UNCHANGED phase

disconnectBtnClick ==
  /\ phase # "script"
  /\ ~disconnectBtnDisabled
  /\ Commit(disconnectWebSocket(Cur))
  /\ UNCHANGED phase

pauseBtnClick ==
  /\ phase # "script"
  /\ ~pauseBtnDisabled
  /\ Commit([Cur EXCEPT !.isPaused = TRUE, !.pauseBtnDisabled = TRUE,
                        !.resumeBtnDisabled = FALSE])
  /\ UNCHANGED phase

resumeBtnClick ==
  /\ phase # "script"
  /\ ~resumeBtnDisabled
  /\ Commit([Cur EXCEPT !.isPaused = FALSE, !.pauseBtnDisabled = FALSE,
                        !.resumeBtnDisabled = TRUE])
  /\ UNCHANGED phase

loadBtnClick ==
  /\ phase # "script"
  /\ Commit(_sendReloadRequest(clearLogTable(Cur)))
  /\ UNCHANGED phase

\* The user toggles #autoPoll; its change handler restarts the poll.
autoPollChange ==
  /\ phase # "script"
  /\ Commit(_restartPollIfNeeded([Cur EXCEPT !.autoPoll = ~@]))
  /\ UNCHANGED phase

\* The user toggles #autoReconnect; the checkbox has no handler.
autoReconnectToggle ==
  /\ phase # "script"
  /\ Commit([Cur EXCEPT !.autoReconnect = ~@])
  /\ UNCHANGED phase

pollIntervalChange(parsed) ==
  /\ phase # "script"
  /\ Commit(_restartPollIfNeeded(
       [Cur EXCEPT !.currentIntervalMs = IF parsed # 0 THEN parsed ELSE ChangeFallbackMs]))
  /\ UNCHANGED phase

\* Click on #generalApply.  parsed is parseInt(pollInterval.value, 10) with 0
\* for a falsy result, kwBox the text in #keywordFilter.
\* #tailLinesSelect shows the count chosen last, which is currentLines; the
\* finally clause closes the overlay.
generalApply(parsed, kwBox) ==
  /\ phase # "script"
  /\ LET s1 == [Cur EXCEPT !.currentIntervalMs = IF parsed # 0 THEN parsed ELSE @,
                           !.currentKeyword = trim(kwBox),
                           !.modal = IF @ = "general" THEN "" ELSE @]
     IN Commit(_sendReloadRequest(applyFilter(_restartPollIfNeeded(s1))))
  /\ UNCHANGED phase

\* change of #tailLinesSelect; parsed is parseInt(this.value, 10), 0 for a
\* falsy result.
tailLinesChange(parsed) ==
  /\ phase # "script"
  /\ Commit([Cur EXCEPT !.currentLines = IF parsed # 0 THEN parsed ELSE INITIAL_TAIL_LINES])
  /\ UNCHANGED phase

\* What a dialog is expected to leave alone until Apply.
Snapshot(st) ==
  [currentKeyword |-> st.currentKeyword, selectedLevels |-> st.selectedLevels,
   currentLines |-> st.currentLines, currentIntervalMs |-> st.currentIntervalMs,
   pollTimer |-> st.pollTimer, intervals |-> st.intervals, inflight |-> st.inflight]

\* Click on #openGeneralFilter.  The controls are set from localStorage,
\* which holds what their change handlers stored, the values they show
\* already; the overlay opens.
openGeneralClick ==
  /\ phase # "script"
  /\ modal = ""
  /\ Commit([Cur EXCEPT !.modal = "general", !.atOpen = Snapshot(Cur)])
  /\ UNCHANGED phase

\* Click on #generalFilterCancel: closeModalOverlay(generalModal).
generalCancelClick ==
  /\ phase # "script"
  /\ modal = "general"
  /\ Commit([Cur EXCEPT !.modal = ""])
  /\ UNCHANGED phase

\* Click on the button that opens the level dialog: each box is checked
\* exactly if its level is selected.
openLevelClick ==
  /\ phase # "script"
  /\ modal = ""
  /\ Commit([Cur EXCEPT !.modal = "level", !.levelChecked = selectedLevels,
                        !.atOpen = Snapshot(Cur)])
  /\ UNCHANGED phase

\* The user ticks or unticks the box of level lvl; the boxes have no handler.
levelCheckboxToggle(lvl) ==
  /\ phase # "script"
  /\ modal = "level"
  /\ Commit([Cur EXCEPT !.levelChecked = IF lvl \in @ THEN @ \ {lvl} ELSE @ \cup {lvl}])
  /\ UNCHANGED phase

levelCancelClick ==
  /\ phase # "script"
  /\ modal = "level"
  /\ Commit([Cur EXCEPT !.modal = ""])
  /\ UNCHANGED phase

\* Click on the Apply button of the level dialog.
levelApplyClick ==
  /\ phase # "script"
  /\ modal = "level"
  /\ Commit([_sendReloadRequest(applyFilter([Cur EXCEPT !.selectedLevels = levelChecked]))
              EXCEPT !.modal = ""])
  /\ UNCHANGED phase

\* Click on a .sort-asc (dir = 1) or .sort-desc (dir = -1) button of column col.
sortBtnClick(col, dir) ==
  /\ phase # "script"
  /\ Commit(sortTable(Cur, col, dir))
  /\ UNCHANGED phase

\* input event on #keywordFilter with the text v in the box: doSearch(v).
keywordFilterInput(v) ==
  /\ phase # "script"
  /\ Commit([Cur EXCEPT !.kwPending = debounce(@, v)])
  /\ UNCHANGED phase

\* A timeout set by doSearch expires: the function given to debounce runs.
doSearch ==
  /\ phase # "script"
  /\ kwPending # << >>
  /\ Commit(_sendReloadRequest([Cur EXCEPT !.currentKeyword = trim(Head(kwPending)),
                                          !.kwPending = Tail(@)]))
  /\ UNCHANGED phase

\* input event on #msgSearch with the text v in the box: doHeaderSearch(v).
msgSearchInput(v) ==
  /\ phase # "script"
  /\ Commit([Cur EXCEPT !.hsPending = debounce(@, v)])
  /\ UNCHANGED phase

\* A timeout set by doHeaderSearch expires.
doHeaderSearch ==
  /\ phase # "script"
  /\ hsPending # << >>
  /\ Commit(applyFilter([Cur EXCEPT !.headerSearch = trim(Head(hsPending)),
                                   !.hsPending = Tail(@)]))
  /\ UNCHANGED phase

\* Click on #applyFilterBtn; kwBox is the text in #keywordFilter.
applyFilterBtnClick(kwBox) ==
  /\ phase # "script"
  /\ Commit(_sendReloadRequest(applyFilter([Cur EXCEPT !.currentKeyword = trim(kwBox)])))
  /\ UNCHANGED phase

\* Click on a .level-chip whose data-level is lvl.
levelChipClick(lvl) ==
  /\ phase # "script"
  /\ LET l == toUpperCase(lvl)
     IN /\ l # << >>
        /\ Commit(_sendReloadRequest(applyFilter(
             [Cur EXCEPT !.selectedLevels = IF l \in @ THEN @ \ {l} ELSE @ \cup {l}])))
  /\ UNCHANGED phase

\* The user edits #startTs and #endTs; the inputs have no handler.
tsRangeEntered(start, end) ==
  /\ phase # "script"
  /\ Commit([Cur EXCEPT !.startTs = start, !.endTs = end])
  /\ UNCHANGED phase

\* Click on #applyTsFilter.
applyTsFilterClick ==
  /\ phase # "script"
  /\ Commit(_sendReloadRequest(applyFilter(Cur)))
  /\ UNCHANGED phase

\* change of #logFileSelect: the select already shows the new option when
\* the handler runs.
fileSelectChange(file) ==
  /\ phase # "script"
  /\ file # selectedFile
  /\ LET s1 == _sendReloadRequest(clearLogTable([Cur EXCEPT !.selectedFile = file]))
         s2 == IF s1.websocket # Null THEN closeTracked(s1, FALSE) ELSE s1
         s3 == IF s2.autoReconnect THEN _scheduleReconnect(s2)
                                   ELSE connectWebSocket(s2, FALSE)
     IN Commit(s3)
  /\ UNCHANGED phase

\* ----------------------------------------------------------- socket events
\* The sockets an event can come from: the tracked one and the detached ones.
Live ==
  (IF websocket # Null THEN {[tracked |-> TRUE, sock |-> websocket]} ELSE {})
  \cup {[tracked |-> FALSE, sock |-> x] : x \in BagToSet(detached)}

\* st with socket e replaced by the socket value new
Put(st, e, new) ==
  IF e.tracked THEN [st EXCEPT !.websocket = new]
  ELSE [st EXCEPT !.detached = (@ (-) SetToBag({e.sock})) (+) SetToBag({new})]

onopen(e) ==
  /\ e \in Live
  /\ e.sock.readyState = "connecting"
  /\ Commit(_stopPoll([Put(Cur, e, [e.sock EXCEPT !.readyState = "open"])
                         EXCEPT !.reconnectAttempts = 0,
                                !.lastDelay = 0,
                                !.connectBtnDisabled = TRUE,
                                !.disconnectBtnDisabled = FALSE]))
  /\ UNCHANGED phase

\* Mutant of onmessage: the paused flag is not consulted.
onmessageWhilePaused(e, frame) ==
  /\ e \in Live
  /\ e.sock.readyState = "open"
  /\ Commit(IF frame.json /\ frame.type = "line"
              THEN addLogEntry(Cur, frame.entry)
              ELSE Cur)
  /\ UNCHANGED phase

\* Mutant of onmessage: a frame that is not a line event closes the socket.
onmessageClosingOnBadFrame(e, frame) ==
  /\ e \in Live
  /\ e.sock.readyState = "open"
  /\ Commit(IF ~(frame.json /\ frame.type = "line")
              THEN Put(Cur, e, [e.sock EXCEPT !.readyState = "closing"])
              ELSE IF ~isPaused THEN addLogEntry(Cur, frame.entry) ELSE Cur)
  /\ UNCHANGED phase

onmessage(e, frame) ==
  /\ e \in Live
  /\ e.sock.readyState = "open"
  /\ Commit(IF ~isPaused /\ frame.json /\ frame.type = "line"
              THEN addLogEntry(Cur, frame.entry)
              ELSE Cur)
  /\ UNCHANGED phase

\* The close event of socket e: after close(), after the server closed the
\* connection, or after the connection failed (the error event before it
\* only changes the status indicator).  The handler sets websocket = null
\* whichever socket it belongs to: a socket still tracked then is detached.
oncloseHandler(st, e) ==
  LET s0 == IF e.tracked THEN st
            ELSE [st EXCEPT !.detached = @ (-) SetToBag({e.sock})]
      s1 == [s0 EXCEPT !.detached = IF ~e.tracked /\ s0.websocket # Null
                                      THEN @ (+) SetToBag({s0.websocket})
                                      ELSE @,
                       !.websocket = Null,
                       !.connectBtnDisabled = FALSE,
                       !.disconnectBtnDisabled = TRUE]
      s2 == _restartPollIfNeeded(s1)
  IN IF s2.autoReconnect THEN _scheduleReconnect(s2) ELSE s2

onclose(e) ==
  /\ e \in Live
  /\ Commit(oncloseHandler(Cur, e))
  /\ UNCHANGED phase

\* ------------------------------------------------------------ timer events
\* setTimeout(()=>{ connectWebSocket(false); }, delay) fires.
reconnectTimerFire ==
  /\ reconnectTimers > 0
  /\ Commit(connectWebSocket([Cur EXCEPT !.reconnectTimers = @ - 1], FALSE))
  /\ UNCHANGED phase

\* setInterval(_sendReloadRequest, currentIntervalMs) ticks.
pollTick ==
  /\ intervals > 0
  /\ Commit(_sendReloadRequest(Cur))
  /\ UNCHANGED phase

\* ------------------------------------------------------------- fetch result
RemoveAt(q, i) == SubSeq(q, 1, i - 1) \o SubSeq(q, i + 1, Len(q))

\* Mutants of fetchResponse: the snapshot is added to the rows already
\* there, and a failed request clears the table.
fetchResponseAppending(i, resp) ==
  /\ i \in 1..Len(inflight)
  /\ LET s1 == [Cur EXCEPT !.inflight = RemoveAt(@, i)]
         s2 == IF ~resp.ok THEN s1
               ELSE IF ~resp.isArray THEN clearLogTable(s1)
               ELSE addEach(s1, resp.data)
     IN Commit(s2)
  /\ UNCHANGED phase

fetchResponseClearingOnError(i, resp) ==
  /\ i \in 1..Len(inflight)
  /\ LET s1 == [Cur EXCEPT !.inflight = RemoveAt(@, i)]
         s2 == IF ~resp.ok \/ ~resp.isArray THEN clearLogTable(s1)
               ELSE addEach(clearLogTable(s1), resp.data)
     IN Commit(s2)
  /\ UNCHANGED phase

\* The continuation of the fetch() at position i of inflight, run on st.
fetchThen(st, i, resp) ==
  LET s1 == [st EXCEPT !.inflight = RemoveAt(@, i)]
  IN IF ~resp.ok THEN s1
     ELSE IF ~resp.isArray THEN clearLogTable(s1)
     ELSE addEach(clearLogTable(s1), resp.data)

fetchResponse(i, resp) ==
  /\ i \in 1..Len(inflight)
  /\ Commit(fetchThen(Cur, i, resp))
  /\ UNCHANGED phase

\* An event of some socket, and the answer to some request.
WsOpen == \E e \in Live : onopen(e)
WsMessage == \E e \in Live, f \in Frames : onmessage(e, f)
WsClose == \E e \in Live : onclose(e)
FetchSettled == \E i \in 1..Len(inflight), r \in Responses : fetchResponse(i, r)
\* An answer that carries no record: a failure, a non-array, an empty array.
FetchSettledEmpty ==
  \E i \in 1..Len(inflight), r \in {x \in Responses : x.data = << >>} :
    fetchResponse(i, r)

PollIntervalEntered == \E v \in EnteredIntervals : pollIntervalChange(v)
FileSelected == \E f \in Files : fileSelectChange(f)

\* ---------------------------------------------------------- specifications
\* DOMContentLoaded with nothing stored but, possibly, the token.
PageReady == \E tok \in BOOLEAN : DOMContentLoaded(FALSE, << >>, {}, tok)

\* DOMContentLoaded with no token stored.
PageReadyNoToken ==
  \E ap \in BOOLEAN, kw \in StoredKeywords, lv \in StoredLevelSets :
    DOMContentLoaded(ap, kw, lv, FALSE)

\* DOMContentLoaded with nothing stored.
PageReadyPlain == DOMContentLoaded(FALSE, << >>, {}, FALSE)

\* The dialog's keyword box shows the keyword in force.
GeneralApplied == \E v \in EnteredIntervals : generalApply(v, currentKeyword)

\* The events of SpecFilter come while no HTTP answer is outstanding.
Settled == inflight = << >>
SortClicked ==
  Settled /\ \E col \in SortColumns, dir \in {0 - 1, 1} : sortBtnClick(col, dir)
KeywordTyped == Settled /\ \E v \in KeywordInputs : keywordFilterInput(v)
KeywordSettled == Settled /\ doSearch
HeaderTyped == Settled /\ \E v \in HeaderInputs : msgSearchInput(v)
HeaderSettled == Settled /\ doHeaderSearch
FilterApplied == Settled /\ \E v \in KeywordInputs : applyFilterBtnClick(v)
LevelChipClicked == Settled /\ levelChipClick(<< "e","r","r","o","r" >>)
TsRangeTyped == Settled /\ \E r \in TsRanges : tsRangeEntered(r[1], r[2])
TsFilterApplied == Settled /\ applyTsFilterClick

\* Values the user may choose in #tailLinesSelect, already through
\* parseInt(v, 10): 0 stands for NaN and for 0.
EnteredLines == {0, 500}
TailLinesEntered == \E v \in EnteredLines : tailLinesChange(v)
LevelBoxToggled == \E l \in {ERROR, INFO} : levelCheckboxToggle(l)

FetchSettledSort ==
  \E i \in 1..Len(inflight), d \in SortSnapshots :
    fetchResponse(i, [ok |-> TRUE, isArray |-> TRUE, data |-> d])

\* Spec: the connection life cycle.  Every event that touches the sockets
\* or the reconnect timers, file switches included; auto-poll stays off, the
\* server sends no line frames and answers with empty snapshots, so the
\* table stays empty.
Next ==
  \/ PageReady
  \/ windowLoad
  \/ connectBtnClick
  \/ disconnectBtnClick
  \/ autoReconnectToggle
  \/ FileSelected
  \/ WsOpen
  \/ WsClose
  \/ reconnectTimerFire
  \/ FetchSettledEmpty

Spec == Init /\ [][Next]_vars

\* SpecTable: polling and what reaches the table.  Auto-reconnect stays off
\* (no token stored, checkbox not ticked), so no reconnect timer is ever
\* scheduled, and the file selection stays as it is.
NextTable ==
  \/ PageReadyNoToken
  \/ windowLoad
  \/ connectBtnClick
  \/ disconnectBtnClick
  \/ pauseBtnClick
  \/ resumeBtnClick
  \/ loadBtnClick
  \/ autoPollChange
  \/ PollIntervalEntered
  \/ GeneralApplied
  \/ WsOpen
  \/ WsMessage
  \/ WsClose
  \/ pollTick
  \/ FetchSettled

SpecTable == Init /\ [][NextTable]_vars

\* SpecFile: file switches while records arrive over both transports.
NextFile ==
  \/ PageReady
  \/ windowLoad
  \/ FileSelected
  \/ loadBtnClick
  \/ WsOpen
  \/ WsMessage
  \/ WsClose
  \/ reconnectTimerFire
  \/ FetchSettled

SpecFile == Init /\ [][NextFile]_vars

\* SpecFilter: sorting and filtering of rows that HTTP snapshots put in the
\* table; no socket is opened, the keyword comes from #applyFilterBtn.
NextFilter ==
  \/ PageReadyPlain
  \/ loadBtnClick
  \/ FetchSettled
  \/ SortClicked
  \/ HeaderTyped
  \/ HeaderSettled
  \/ FilterApplied
  \/ LevelChipClicked
  \/ TsRangeTyped
  \/ TsFilterApplied

SpecFilter == Init /\ [][NextFilter]_vars

\* SpecDebounce: the two debounced inputs and what their functions do to
\* the rows and to the server; no socket is opened.
NextDebounce ==
  \/ PageReadyPlain
  \/ loadBtnClick
  \/ FetchSettled
  \/ KeywordTyped
  \/ KeywordSettled
  \/ HeaderTyped
  \/ HeaderSettled

SpecDebounce == Init /\ [][NextDebounce]_vars

\* SpecSort: the sort buttons over snapshots of records with all kinds of
\* keys; no socket is opened and no filter is set.
NextSort ==
  \/ PageReadyPlain
  \/ loadBtnClick
  \/ FetchSettledSort
  \/ SortClicked

SpecSort == Init /\ [][NextSort]_vars

\* SpecEntry: line events of an open socket arrive while the four filters
\* are set; auto-poll and auto-reconnect stay off.
NextEntry ==
  \/ PageReadyPlain
  \/ connectBtnClick
  \/ WsOpen
  \/ WsMessage
  \/ FetchSettledEmpty
  \/ HeaderTyped
  \/ HeaderSettled
  \/ FilterApplied
  \/ LevelChipClicked
  \/ TsRangeTyped
  \/ TsFilterApplied

SpecEntry == Init /\ [][NextEntry]_vars

\* SpecHighlight: keywords with pattern characters and pieces of entities
\* are applied to messages that hold such characters; no socket is opened.
HighlightKeywords ==
  {<< "o","k" >>, << "d","." >>, << "(" >>, << "a","m","p" >>,
   << ".","\\","]" >>}
HighlightEntries ==
  {[ts |-> << "1" >>, level |-> INFO, msg |-> << "d",".","d","i" >>,
    message |-> << >>],
   [ts |-> << "2" >>, level |-> INFO, msg |-> << "a","&","(","O","k" >>,
    message |-> << >>],
   [ts |-> << "2" >>, level |-> ERROR, msg |-> << ".","\\","]","]" >>,
    message |-> << >>]}
HighlightSnapshots == SeqsUpTo(HighlightEntries, MaxRows)
FetchSettledHighlight ==
  \E i \in 1..Len(inflight), d \in HighlightSnapshots :
    fetchResponse(i, [ok |-> TRUE, isArray |-> TRUE, data |-> d])
HighlightKeywordApplied == \E v \in HighlightKeywords : applyFilterBtnClick(v)

NextHighlight ==
  \/ PageReadyPlain
  \/ loadBtnClick
  \/ FetchSettledHighlight
  \/ HighlightKeywordApplied

SpecHighlight == Init /\ [][NextHighlight]_vars

\* SpecDialog: the two filter dialogs and the controls they show; no socket
\* is opened and no answer arrives.
NextDialog ==
  \/ PageReadyPlain
  \/ openGeneralClick
  \/ TailLinesEntered
  \/ PollIntervalEntered
  \/ autoPollChange
  \/ KeywordTyped
  \/ KeywordSettled
  \/ generalCancelClick
  \/ GeneralApplied
  \/ openLevelClick
  \/ LevelBoxToggled
  \/ levelCancelClick
  \/ levelApplyClick

SpecDialog == Init /\ [][NextDialog]_vars

\* ------------------------------------------------------------------ claims
\* Sockets that are connecting or open, and whether one is open.
ActiveSockets ==
  (IF websocket.readyState \in {"connecting", "open"} THEN 1 ELSE 0)
  + BagCardinality([x \in {y \in BagToSet(detached) :
                             y.readyState \in {"connecting", "open"}} |-> detached[x]])

SomeOpen ==
  \/ websocket.readyState = "open"
  \/ \E x \in BagToSet(detached) : x.readyState = "open"

\* This step called setTimeout in _scheduleReconnect.
Scheduled == reconnectTimers' = reconnectTimers + 1

\* C1: in no reachable state is a WebSocket connection open while the poll
\* interval timer is active.
C1_NoPollWhileOpen == ~(SomeOpen /\ pollTimer # 0)

\* C2: at any time at most one socket created by the controller is
\* connecting or open.
C2_AtMostOneActiveSocket == ActiveSockets <= 1

\* C3: the close event of a connection that disconnectWebSocket() closed
\* schedules no reconnect attempt, also with auto-reconnect enabled.
C3_UserCloseSchedulesNothing ==
  [][\A e \in Live : onclose(e) /\ e.sock.userClosed => ~Scheduled]_vars

\* The delays of attempts 1..6 as the claim gives them, min(30000, 500 * 2^n).
ExpectedDelays == << 1000, 2000, 4000, 8000, 16000, 30000 >>

\* C4: every close event with auto-reconnect on and fewer than 6 attempts
\* made schedules the next attempt; the n-th attempt since the last open is
\* scheduled with delay min(30000, 500 * 2^n); with 6 attempts made nothing
\* is scheduled any more.
C4_SixAttemptsWithBackoff ==
  [][/\ Scheduled => /\ reconnectAttempts < 6
                     /\ reconnectAttempts' = reconnectAttempts + 1
                     /\ lastDelay' = ExpectedDelays[reconnectAttempts']
     /\ (\E e \in Live : onclose(e)) /\ autoReconnect /\ reconnectAttempts < 6
          => Scheduled
     /\ reconnectAttempts >= 6 => ~Scheduled]_vars

\* C4 witness: the sixth attempt is scheduled, with the capped delay.
C4_Witness == reconnectAttempts = 6 /\ lastDelay = 30000 /\ reconnectTimers > 0

\* C5 as stated: the first delay after a reset is 500 ms, each following one
\* twice the one before, capped at 30 s.
C5_FirstDelay500 ==
  [][Scheduled => lastDelay' = IF lastDelay = 0 THEN 500
                               ELSE Min(30000, 2 * lastDelay)]_vars

\* C5 amended: the first delay is 1000 ms, each following one twice the one
\* before, capped at 30 s.
C5_FirstDelay1000 ==
  [][Scheduled => lastDelay' = IF lastDelay = 0 THEN 1000
                               ELSE Min(30000, 2 * lastDelay)]_vars

\* C5 witness: the first attempt after an open is pending with its delay.
C5_Witness ==
  reconnectAttempts = 1 /\ lastDelay = 1000 /\ reconnectTimers = 1 /\ ActiveSockets = 0

\* C6: the counter stays within 0..6, and a step that decreases it is an
\* open event, which sets it to 0.
C6_CounterResetOnlyOnOpen ==
  /\ reconnectAttempts \in 0..6
  /\ [][/\ reconnectAttempts' \in 0..6
        /\ reconnectAttempts' < reconnectAttempts
             => (\E e \in Live : onopen(e)) /\ reconnectAttempts' = 0]_vars

\* C6 witness: a connection is open and the counter is 0 while a timeout of
\* an earlier attempt is still pending, so the open reset a counter above 0.
C6_Witness == SomeOpen /\ reconnectAttempts = 0 /\ reconnectTimers > 0

\* C7 as stated: a connection started by a manual connect() after the budget
\* was used up gets a reconnect scheduled when it closes with auto-reconnect
\* enabled.
C7_ManualConnectRestoresRetries ==
  [][\A e \in Live : onclose(e) /\ e.sock.manual /\ autoReconnect => Scheduled]_vars

\* C7 amended: a manual connect() leaves the counter as it is, an open event
\* sets it to 0, and a close event with auto-reconnect enabled schedules a
\* reconnect exactly when the counter is below 6.
C7_RetriesResumeOnlyAfterOpen ==
  [][/\ connectBtnClick => reconnectAttempts' = reconnectAttempts
     /\ \A e \in Live : onopen(e) => reconnectAttempts' = 0
     /\ \A e \in Live : onclose(e) /\ autoReconnect
          => (Scheduled <=> reconnectAttempts < 6)]_vars

\* C7 witness: the budget is used up, auto-reconnect is on and the tracked
\* connection was started by a manual connect() and has not opened.
C7_Witness ==
  /\ reconnectAttempts = 6
  /\ autoReconnect
  /\ websocket.manual
  /\ websocket.readyState = "connecting"

\* C8: while paused a frame changes nothing; resume changes neither the
\* table nor the counter (nothing is replayed); when not paused a line frame
\* adds exactly one row and other frames change nothing.
C8_PauseDropsFrames ==
  [][/\ \A e \in Live, f \in Frames : onmessage(e, f) =>
          IF ~isPaused /\ f.json /\ f.type = "line"
            THEN /\ Len(tbody') = Len(tbody) + 1
                 /\ Tail(tbody') = tbody
                 /\ totalLogs' = totalLogs + 1
            ELSE UNCHANGED vars
     /\ resumeBtnClick => tbody' = tbody /\ totalLogs' = totalLogs /\ ~isPaused']_vars

\* C8 witness: paused with a connection open and a row rendered before.
C8_Witness == isPaused /\ SomeOpen /\ Len(tbody) = 1

\* C9: an HTTP answer that arrives while paused adds no rows.
C9_PauseDropsPollAnswers ==
  [][\A i \in 1..Len(inflight), r \in Responses :
       fetchResponse(i, r) /\ isPaused => tbody' = tbody \/ tbody' = << >>]_vars

\* C10: an HTTP answer that arrives while a connection is open neither
\* clears nor inserts rows.
C10_NoPollAnswerWhileOpen ==
  [][\A i \in 1..Len(inflight), r \in Responses :
       fetchResponse(i, r) /\ SomeOpen => tbody' = tbody /\ totalLogs' = totalLogs]_vars

\* C11: the answer to a request that was built for another file than the one
\* now selected renders no row.
C11_NoRowsOfPreviousFile ==
  [][\A i \in 1..Len(inflight), r \in Responses :
       fetchResponse(i, r) /\ inflight[i].file # selectedFile
         => tbody' = tbody \/ tbody' = << >>]_vars

\* C12: a file switch closes the open connection first and then issues its
\* one refetch, so the refetch cannot go over the old connection: it leaves
\* as an HTTP request for the new file, and the table is cleared.
C12_RefetchAfterClose ==
  [][\A f \in Files :
       fileSelectChange(f)
         => /\ tbody' = << >>
            /\ inflight' = Append(inflight, [_buildFilterPayload(Cur) EXCEPT !.file = f])]_vars

\* C13: with auto-reconnect or auto-poll enabled, a file switch leaves the
\* controller with something that leads to a connection attempt or to
\* polling without further user action: a tracked socket, a pending reconnect
\* timeout, a running poll timer, or a pending close event whose handler
\* starts one of them.
C13_SwitchLeadsToTransport ==
  [][\A f \in Files :
       fileSelectChange(f) /\ (autoReconnect \/ autoPoll)
         => \/ websocket' # Null
            \/ reconnectTimers' > 0
            \/ intervals' > 0
            \/ /\ detached' # EmptyBag
               /\ autoPoll' \/ (autoReconnect' /\ reconnectAttempts' < MAX_RECONNECT)]_vars

\* The elements of a sequence with their multiplicities.
BagOfSeq(q) ==
  [x \in {q[k] : k \in 1..Len(q)} |-> Cardinality({k \in 1..Len(q) : q[k] = x})]

\* What a row shows of a record, and what a record asks a row to show.
RowShown(row) == [level |-> row.rawLevel, msg |-> row.rawMsg]
RecordShown(e) == [level |-> toUpperCase(e.level), msg |-> OrElse(e.msg, e.message)]

\* C14: after a successful HTTP answer with the array L the table holds one
\* row per element of L and no other row, and the total counter is the
\* length of L (0 and no rows for the empty array).  An answer takes its
\* request out of those in flight, so only the steps that shorten inflight
\* are compared with fetchResponse.
C14_SnapshotReplacesTable ==
  [][Len(inflight') < Len(inflight)
       => \A i \in 1..Len(inflight), r \in {x \in Responses : x.ok /\ x.isArray} :
            fetchResponse(i, r)
              => /\ Len(tbody') = Len(r.data)
                 /\ totalLogs' = Len(r.data)
                 /\ BagOfSeq([k \in 1..Len(tbody') |-> RowShown(tbody'[k])])
                      = BagOfSeq([k \in 1..Len(r.data) |-> RecordShown(r.data[k])])]_vars

\* C14 witness: the table shows the two records of the two-element snapshot,
\* the total is 2 and no answer is outstanding.
C14_Witness ==
  /\ Len(tbody) = 2
  /\ totalLogs = 2
  /\ inflight = << >>
  /\ RowShown(tbody[1]) = RecordShown(Entry1)
  /\ RowShown(tbody[2]) = RecordShown(Entry2)
  /\ websocket = Null /\ detached = EmptyBag /\ connectBtnDisabled = FALSE
  /\ disconnectBtnDisabled

\* C15: a failed HTTP request leaves rows and total as they were, issues no
\* new request, schedules nothing and leaves the poll timer running as it was.
C15_FailureChangesNothing ==
  [][\A i \in 1..Len(inflight), r \in {x \in Responses : ~x.ok} :
       fetchResponse(i, r)
         => /\ tbody' = tbody /\ totalLogs' = totalLogs /\ lastUpdate' = lastUpdate
            /\ inflight' = RemoveAt(inflight, i)
            /\ reconnectTimers' = reconnectTimers
            /\ pollTimer' = pollTimer /\ intervals' = intervals
            /\ websocket' = websocket /\ detached' = detached]_vars

\* C15 witness: rows are rendered, the poll timer runs and an answer is
\* outstanding, which may be a failure.
C15_Witness == Len(tbody) > 0 /\ totalLogs > 0 /\ intervals = 1 /\ Len(inflight) = 1

\* C16: at most one poll interval timer is live at any time; the handle
\* pollTimer names it, and it runs with the interval now in force, so no
\* tick comes from a timer whose interval has been superseded.
C16_OnePollTimer ==
  /\ intervals <= 1
  /\ intervals = 1 <=> pollTimer # 0
  /\ pollTimer # 0 => pollTimer = currentIntervalMs /\ autoPoll

\* A timer restarted with an interval entered after it had been started
\* with the default one.
C16_Witness ==
  /\ intervals = 1
  /\ pollTimer = ChangeFallbackMs
  /\ currentIntervalMs = ChangeFallbackMs

\* Steps in which a handler runs applyFilter().
RunsApplyFilter == HeaderSettled \/ FilterApplied \/ LevelChipClicked \/ TsFilterApplied

\* C17: with a sort active, a step that runs applyFilter() leaves the sort
\* column and the sort direction as they were, and leaves the rows ordered by
\* that column in that direction.
C17_FilterKeepsSort ==
  [][RunsApplyFilter /\ sortColumn # ""
       => /\ sortColumn' = sortColumn
          /\ sortDirection' = sortDirection
          /\ \A a, b \in 1..Len(tbody') :
               a < b => compareRows(sortColumn, tbody'[a], tbody'[b], sortDirection) <= 0]_vars

\* The four conditions of visibility for a row under a keyword, a level
\* set, the texts of the two time inputs and a header search.
WithinBound(tsMs, boundText, lower) ==
  LET bound == DateGetTime(boundText)
  IN boundText # << >> /\ bound # NaN
       => tsMs # NaN /\ (IF lower THEN tsMs >= bound ELSE tsMs <= bound)

RowPasses(row, kw, levels, start, end, hs) ==
  LET text == row.rawTs \o << " " >> \o row.rawLevel \o << " " >> \o row.rawMsg
  IN /\ kw = << >> \/ Contains(toLowerCase(text), toLowerCase(kw))
     /\ levels = {} \/ row.rawLevel \in levels
     /\ WithinBound(parseTsMs(row.rawTs), start, TRUE)
     /\ WithinBound(parseTsMs(row.rawTs), end, FALSE)
     /\ hs = << >> \/ Contains(toLowerCase(row.rawMsg), toLowerCase(hs))

\* C18: after a step that runs applyFilter(), a row is shown exactly if the
\* keyword, the level set, the time bounds and the header search all pass it.
C18_VisibleIffAllFour ==
  [][RunsApplyFilter
       => \A k \in 1..Len(tbody') :
            ~tbody'[k].hidden
              <=> RowPasses(tbody'[k], currentKeyword', selectedLevels',
                            startTs', endTs', headerSearch')]_vars

\* C18 witness: applyFilter() has run with a header search and a time bound
\* in force, and shows one of two rows.
C18_Witness ==
  /\ Len(tbody) = 2
  /\ headerSearch # << >>
  /\ startTs = << "1" >> /\ endTs = << "1" >>
  /\ \E k \in 1..2 : tbody[k].hidden /\ tbody[k].rawTs = NowText /\ ~tbody[3 - k].hidden

\* C19: when the debounced keyword input settles, the rows already rendered
\* are shown or hidden by the new keyword, and one refetch request carrying
\* the new keyword is sent.
C19_KeywordRefiltersAndRefetches ==
  [][KeywordSettled
       => /\ currentKeyword' = trim(Head(kwPending))
          /\ inflight' = Append(inflight, [_buildFilterPayload(Cur)
                                             EXCEPT !.keyword = currentKeyword'])
          /\ Len(tbody') = Len(tbody)
          /\ \A k \in 1..Len(tbody') :
               ~tbody'[k].hidden
                 <=> RowPasses(tbody'[k], currentKeyword', selectedLevels',
                               startTs', endTs', headerSearch')]_vars

\* C20: an input event leaves exactly one invocation pending for its own
\* input, with the value of that event, and leaves the other input's pending
\* invocation alone; when the timeout expires the function runs once with
\* that value and nothing stays pending for the input.
C20_LastValueOnlyPerInput ==
  [][/\ \A v \in KeywordInputs :
          keywordFilterInput(v) => kwPending' = << v >> /\ hsPending' = hsPending
     /\ \A v \in HeaderInputs :
          msgSearchInput(v) => hsPending' = << v >> /\ kwPending' = kwPending
     /\ doSearch => /\ currentKeyword' = trim(kwPending[Len(kwPending)])
                    /\ kwPending' = << >> /\ hsPending' = hsPending
     /\ doHeaderSearch => /\ headerSearch' = trim(hsPending[Len(hsPending)])
                          /\ hsPending' = << >> /\ kwPending' = kwPending]_vars

\* C20 witness: an invocation is pending for each of the two inputs at the
\* same time, the keyword one with the text typed last.
C20_Witness ==
  /\ kwPending = << << "1" >> >>
  /\ hsPending = << << " ","d","I" >> >>
  /\ currentKeyword = << "O","K" >>

\* C24: a frame that is not JSON, or is JSON but not a line event, is
\* dropped: the sockets stay as they are (open, tracked or not), and the
\* rows, the total, the reconnect counter and timeouts and the poll timer
\* are unchanged.
C24_BadFrameDropped ==
  [][\A e \in Live, f \in {x \in Frames : ~(x.json /\ x.type = "line")} :
       onmessage(e, f)
         => /\ websocket' = websocket /\ detached' = detached
            /\ tbody' = tbody /\ totalLogs' = totalLogs
            /\ reconnectAttempts' = reconnectAttempts
            /\ reconnectTimers' = reconnectTimers
            /\ pollTimer' = pollTimer /\ intervals' = intervals]_vars

\* C24 witness: the tracked socket is open, rendering is not paused and two
\* rows are shown, so a frame of any kind may arrive and be handled.
C24_Witness ==
  /\ websocket.readyState = "open"
  /\ ~isPaused
  /\ Len(tbody) = 2 /\ totalLogs = 2

\* C25: a step that runs clearLogTable() and renders nothing afterwards
\* (Load button, window load) leaves no row, total 0, an empty last-update
\* display, the pause button enabled and the resume button disabled, and
\* the paused flag false.
C25_ClearLeavesNotPaused ==
  [][loadBtnClick \/ windowLoad
       => /\ tbody' = << >> /\ totalLogs' = 0 /\ ~lastUpdate'
          /\ ~pauseBtnDisabled' /\ resumeBtnDisabled'
          /\ ~isPaused']_vars

\* C26: a poll interval entered in #pollInterval that parseInt does not turn
\* into a number (0 stands for NaN here) gives the built-in default of
\* 5000 ms, in the variable and in the timer that is restarted.
C26_NonNumericGivesDefault ==
  [][pollIntervalChange(0)
       => /\ currentIntervalMs' = DefaultIntervalMs
          /\ pollTimer' \in {0, DefaultIntervalMs}]_vars

\* C27: the handle websocket is null exactly if no socket the controller
\* created is connecting or open.
C27_HandleNullIffNoSocket == (websocket = Null) <=> (ActiveSockets = 0)

\* C28: at most one reconnect timeout is pending at any time, and while one
\* is pending the close event of no socket sets another: the state its
\* handler leaves has one timeout pending and the attempt counter as it was.
C28_OneReconnectTimerPending ==
  /\ reconnectTimers <= 1
  /\ reconnectTimers = 1
       => \A e \in Live :
            /\ oncloseHandler(Cur, e).reconnectTimers = 1
            /\ oncloseHandler(Cur, e).reconnectAttempts = reconnectAttempts

\* The sort key of a row for a column: the parsed timestamp, the level's
\* priority or the message in lower case.
KeyOf(row, col) ==
  IF col = "ts" THEN << parseTsMs(row.rawTs) >>
  ELSE IF col = "level" THEN << pri(toUpperCase(row.rawLevel)) >>
  ELSE toLowerCase(row.rawMsg)

\* The rows of q that have the key k, in their order in q.
WithKey(q, col, k) ==
  LET HasKey(row) == KeyOf(row, col) = k
  IN SelectSeq(q, HasKey)

LevelRank(level) ==
  LET name == toUpperCase(level)
      table == << << ERROR, 4 >>, << << "W","A","R","N","I","N","G" >>, 3 >>,
                  << INFO, 2 >>, << << "D","E","B","U","G" >>, 1 >> >>
      hits == {n \in 1..Len(table) : table[n][1] = name}
  IN IF hits = {} THEN 0 ELSE table[CHOOSE n \in hits : TRUE][2]

\* C23: after a click on the descending sort button of the level column
\* the priorities of the rows do not increase from top to bottom; after the
\* ascending button they do not decrease.  Only the steps that leave
\* inflight alone are compared with sortBtnClick.
C23_LevelSortByPriority ==
  [][inflight' = inflight
       => \A dir \in {0 - 1, 1} :
            sortBtnClick("level", dir)
              => \A a, b \in 1..Len(tbody') :
                   a < b => (LevelRank(tbody'[b].rawLevel)
                               - LevelRank(tbody'[a].rawLevel)) * dir >= 0]_vars

\* C23 witness: sorted descending by level, a WARNING row stands above a
\* DEBUG row.
C23_Witness ==
  /\ sortColumn = "level" /\ sortDirection = 0 - 1
  /\ Len(tbody) = 2
  /\ tbody[1].rawLevel = << "W","A","R","N","I","N","G" >>
  /\ tbody[2].rawLevel = << "D","E","B","U","G" >>

\* C29: with a sort active, after the records of a poll answer have been
\* rendered the rows are ordered by the active column and direction.
C29_ArrivalsKeepSortOrder ==
  [][FetchSettledSort /\ sortColumn # ""
       => \A a, b \in 1..Len(tbody') :
            a < b => compareRows(sortColumn, tbody'[a], tbody'[b], sortDirection) <= 0]_vars

\* C21: a click on Cancel in either dialog leaves the keyword, the level
\* set, the tail-line count, the poll interval, the poll timer and the
\* requests sent as they were when the dialog was opened.
C21_CancelDiscardsEdits ==
  [][generalCancelClick \/ levelCancelClick
       => /\ currentKeyword' = atOpen.currentKeyword
          /\ selectedLevels' = atOpen.selectedLevels
          /\ currentLines' = atOpen.currentLines
          /\ currentIntervalMs' = atOpen.currentIntervalMs
          /\ pollTimer' = atOpen.pollTimer /\ intervals' = atOpen.intervals
          /\ inflight' = atOpen.inflight]_vars

\* C30: when a poll tick sends a request while an older request is in
\* flight, and the newer request is answered before the older one, the
\* table after both answers shows the snapshot of the newer request.  The
\* model keeps at most MaxInflight requests in flight, so the formula states
\* the result of the three handlers run in that order on a reachable state.
C30_LastRequestWins ==
  \A older, newer \in {r \in Responses : r.ok /\ r.isArray} :
    LET sent == _sendReloadRequest(Cur)
        first == fetchThen(sent, 2, newer)
        last == fetchThen(first, 1, older)
    IN intervals > 0 /\ Len(inflight) = 1 /\ Len(sent.inflight) = 2
         => last.tbody = first.tbody

\* C31: in every reachable state the total counter equals the number of
\* rows of the table, hidden rows included.
C31_TotalIsRowCount == totalLogs = Len(tbody)

\* C31 witness: the counter stands at 2 while one of the two rows is hidden.
C31_Witness ==
  /\ totalLogs = 2
  /\ \E a, b \in 1..Len(tbody) : tbody[a].hidden /\ ~tbody[b].hidden

\* C32: a line event rendered by addLogEntry puts one row for the record on
\* top of the rows there were, which keep their order and their display,
\* adds 1 to the total, and hides the new row exactly if the keyword or the
\* level set rejects it, whatever the time range and the header search are.
C32_AddLogEntryEffect ==
  [][Len(tbody') > Len(tbody)
       => \A e \in Live, f \in {x \in Frames : x.json /\ x.type = "line"} :
            onmessage(e, f)
              => /\ Tail(tbody') = tbody
                 /\ totalLogs' = totalLogs + 1
                 /\ tbody'[1].rawLevel = toUpperCase(f.entry.level)
                 /\ tbody'[1].rawTs = OrElse(f.entry.ts, NowText)
                 /\ tbody'[1].rawMsg = OrElse(f.entry.msg, f.entry.message)
                 /\ ~tbody'[1].hidden
                      <=> RowPasses(tbody'[1], currentKeyword, selectedLevels,
                                    << >>, << >>, << >>)]_vars

\* C32 witness: a line event has put a shown row on top of an older row
\* while the header search and the time range in force reject the new row.
C32_Witness ==
  /\ Len(tbody) = 2
  /\ ~tbody[1].hidden
  /\ websocket # Null /\ websocket.readyState = "open"
  /\ ~RowPasses(tbody[1], << >>, {}, << >>, << >>, headerSearch)
  /\ ~RowPasses(tbody[1], << >>, {}, startTs, endTs, << >>)

\* The raw values of the rows of q, with their multiplicities.
RawValues(q) ==
  BagOfSeq([k \in 1..Len(q) |->
             [rawTs |-> q[k].rawTs, rawLevel |-> q[k].rawLevel,
              rawMsg |-> q[k].rawMsg]])

\* C33: in every reachable state applyFilter() and sortTable(col, dir), for
\* every column and every direction given or not given, give a table of the
\* same rows with the same raw values; sortTable() also leaves every row its
\* display.
C33_FilterAndSortKeepRows ==
  /\ Len(applyFilter(Cur).tbody) = Len(tbody)
  /\ RawValues(applyFilter(Cur).tbody) = RawValues(tbody)
  /\ \A col \in SortColumns, dir \in {0 - 1, 0, 1} :
       BagOfSeq(sortTable(Cur, col, dir).tbody) = BagOfSeq(tbody)

\* C33 witness: two rows, one hidden, in a state where a sort by level
\* moves the hidden row and applyFilter() changes the display of a row.
C33_Witness ==
  /\ Len(tbody) = 2
  /\ tbody[1].hidden /\ ~tbody[2].hidden
  /\ sortTable(Cur, "level", 1).tbody[2].hidden
  /\ \E k \in 1..2, j \in 1..2 :
       /\ applyFilter(Cur).tbody[j].rawMsg = tbody[k].rawMsg
       /\ applyFilter(Cur).tbody[j].hidden # tbody[k].hidden

\* C34: after a click on a sort button of the timestamp column, ascending
\* or descending, no row with an unparsable timestamp stands above a row
\* with a valid one.
C34_UnparsableTsLast ==
  [][inflight' = inflight
       => \A dir \in {0 - 1, 1} :
            sortBtnClick("ts", dir)
              => \A a, b \in 1..Len(tbody') :
                   a < b /\ parseTsMs(tbody'[a].rawTs) = NaN
                     => parseTsMs(tbody'[b].rawTs) = NaN]_vars

\* The HTML of a message in which exactly the occurrences of kw, letter
\* case ignored, taken from left to right, stand between the markers.
RECURSIVE LiteralHighlight(_, _)
LiteralHighlight(text, kw) ==
  IF text = << >> THEN << >>
  ELSE IF kw # << >> /\ Len(text) >= Len(kw)
          /\ toLowerCase(SubSeq(text, 1, Len(kw))) = toLowerCase(kw)
    THEN << MarkOpen >> \o escapeHtml(SubSeq(text, 1, Len(kw))) \o << MarkClose >>
           \o LiteralHighlight(SubSeq(text, Len(kw) + 1, Len(text)), kw)
  ELSE escapeHtml(<< Head(text) >>) \o LiteralHighlight(Tail(text), kw)

\* C35: the HTML highlightText gives for a row's message under the keyword
\* in force marks exactly the literal occurrences of the keyword in the
\* message, letter case ignored.
C35_HighlightIsLiteral ==
  \A k \in 1..Len(tbody) :
    highlightText(tbody[k].rawMsg, currentKeyword)
      = LiteralHighlight(tbody[k].rawMsg, currentKeyword)

====
